---- MODULE Spec2Model ----
(***************************************************************************)
(* The inactive-account cleaner of x-tracker: the following_status,        *)
(* whitelist, unfollow_log and activity_checks tables of CleanerDatabase   *)
(* (scripts/archive/cleaner_database.py), the pipeline operations of       *)
(* InactiveAccountCleaner (scripts/archive/inactive_account_cleaner.py)    *)
(* and the whitelist operations of WhitelistManager                        *)
(* (scripts/archive/whitelist_manager.py).                                 *)
(*                                                                         *)
(* Every action is one whole handler.  The gateway's answers and the       *)
(* store's errors are inputs of the actions.  Timestamps are the abstract  *)
(* value Now; a nullable column holds <<>> (SQL NULL) or <<v>>.            *)
(***************************************************************************)
EXTENDS Integers, Sequences, FiniteSets, TLC

\* ---------------------------------------------------------------- bounds
NumIds == 2
MaxChecks == 2
MaxBatches == 1
MaxPages == 2
MaxClock == 720

\* ------------------------------------------------------ program constants
max_unfollows_per_run == 50
min_unfollow_score == 50
max_unfollows_per_day == 100
WhitelistScore == 0 - 1000
TopShown == 10
HighFollowers == 100000

Ids == 1..NumIds

NULL == <<>>
Some(v) == <<v>>
Val(c) == c[1]
Now == Some(0)

Min(a, b) == IF a < b THEN a ELSE b
Max(a, b) == IF a > b THEN a ELSE b

VARIABLES
    following_status,   \* user_id -> row of following_status, or NoRow
    whitelist,          \* the user_ids that have a row in whitelist
    unfollow_log,       \* rows of unfollow_log, in insertion order
    activity_checks,    \* rows of activity_checks, in insertion order
    pc,                 \* "idle", or where the running loop or request is
    todo,               \* the part of the list the running loop has not reached
    run,                \* the locals of the running loop
    batches,            \* number of executor runs that drew a batch_id
    response,           \* the gateway's answer to the last request of the loop
    ret,                \* <<v>>: an operation returned v to its caller; <<>> else
    _rate_limits,       \* XAPIClient._rate_limits: endpoint -> <<>> or <<entry>>
    clock               \* datetime.now(), in seconds

vars == <<following_status, whitelist, unfollow_log, activity_checks, pc,
          todo, run, batches, response, ret, _rate_limits, clock>>

store == <<following_status, whitelist, unfollow_log, activity_checks>>

NoRow == [exists |-> FALSE]

\* The endpoints of the X API client, and the client's own state.
Endpoints == {"/users/me", "/users/by"}
client == <<_rate_limits, clock>>
NoLimits == [e \in Endpoints |-> <<>>]

\* ------------------------------------------------------------ the gateway
\* What GET /2/users/me/following reports for a user: the profile of a
\* user is the same in every fetch.
GatewayUser(id) ==
    CASE id % 3 = 1 ->
           [id |-> id, verified |-> TRUE, protected |-> FALSE,
            profile_image_url |-> "pic.jpg",
            followers_count |-> 30, tweet_count |-> 5000]
      [] id % 3 = 2 ->
           [id |-> id, verified |-> FALSE, protected |-> FALSE,
            profile_image_url |-> "pic.jpg",
            followers_count |-> 300, tweet_count |-> 50]
      [] OTHER ->
           [id |-> id, verified |-> FALSE, protected |-> TRUE,
            profile_image_url |-> "pic.jpg",
            followers_count |-> 2000000, tweet_count |-> 5000]

\* Age in days of the latest tweet GET /2/users/:id/tweets reports.
TweetAge(id) ==
    CASE id % 3 = 1 -> 800
      [] id % 3 = 2 -> 400
      [] OTHER -> 750

\* ------------------------------------------------- CleanerDatabase: rows
\* INSERT OR REPLACE deletes the row with this user_id and inserts a new
\* one that holds the listed columns; every other column takes its
\* default (NULL, check_count 1, is_whitelisted 0).
add_following_account(fs, user) ==
    [fs EXCEPT ![user.id] =
        [exists |-> TRUE,
         user_id |-> user.id,
         follower_count |-> user.followers_count,
         tweet_count |-> user.tweet_count,
         verified |-> user.verified,
         protected |-> user.protected,
         profile_image_url |-> user.profile_image_url,
         first_seen_date |-> Now,
         last_checked_date |-> Now,
         last_tweet_date |-> NULL,
         days_inactive |-> NULL,
         check_count |-> 1,
         unfollow_score |-> NULL,
         is_whitelisted |-> FALSE,
         unfollowed_date |-> NULL,
         unfollow_reason |-> NULL]]

\* update_account_activity with days_inactive 0 where no tweet is known.
update_account_activity_zero_days(fs, ac, user_id, activity) ==
    LET days_inactive == IF activity.last_tweet_age # NULL
                         THEN activity.last_tweet_age ELSE Some(0)
    IN [fs |-> IF fs[user_id].exists
               THEN [fs EXCEPT ![user_id].last_tweet_date = activity.last_tweet_age,
                               ![user_id].days_inactive = days_inactive,
                               ![user_id].last_checked_date = Now,
                               ![user_id].check_count = @ + 1]
               ELSE fs,
        ac |-> Append(ac, [user_id |-> user_id,
                           last_tweet_date |-> activity.last_tweet_age,
                           days_inactive |-> days_inactive])]

\* activity.last_tweet_age is NULL or the age of the tweet in days:
\* days_inactive = (now - last_tweet_date).days.  The UPDATE has no
\* condition but the user_id; the INSERT into activity_checks runs whether
\* or not a row was updated.
update_account_activity(fs, ac, user_id, activity) ==
    LET days_inactive == IF activity.last_tweet_age # NULL
                         THEN activity.last_tweet_age ELSE NULL
    IN [fs |-> IF fs[user_id].exists
               THEN [fs EXCEPT ![user_id].last_tweet_date = activity.last_tweet_age,
                               ![user_id].days_inactive = days_inactive,
                               ![user_id].last_checked_date = Now,
                               ![user_id].check_count = @ + 1]
               ELSE fs,
        ac |-> Append(ac, [user_id |-> user_id,
                           last_tweet_date |-> activity.last_tweet_age,
                           days_inactive |-> days_inactive])]

\* None > 730 raises TypeError: the row always has the key days_inactive,
\* so .get('days_inactive', 0) returns None for a NULL column.
ScoreRaises(account) ==
    /\ ~account.is_whitelisted
    /\ account.days_inactive = NULL

\* The score with the clamp applied to the whitelist value as well.
_calculate_unfollow_score_clamps_whitelisted(account) ==
    IF account.is_whitelisted THEN Max(0, WhitelistScore)
    ELSE
    LET d == Val(account.days_inactive)
        f == account.follower_count
        t == account.tweet_count
        s1 == IF d > 730 THEN 100
              ELSE IF d > 365 THEN 80
              ELSE IF d > 180 THEN 50
              ELSE IF d > 90 THEN 20 ELSE 0
        s2 == IF f < 50 THEN 30
              ELSE IF f < 500 THEN 15
              ELSE IF f < 5000 THEN 5
              ELSE IF f > 100000 THEN 0 - 20
              ELSE IF f > 1000000 THEN 0 - 50 ELSE 0
        s3 == IF account.verified THEN 0 - 40 ELSE 0
        s4 == IF account.protected THEN 10 ELSE 0
        s5 == IF account.profile_image_url \in {"", "default_profile.png"}
              THEN 15 ELSE 0
        s6 == IF t < 10 THEN 25 ELSE IF t < 100 THEN 10 ELSE 0
    IN Max(0, s1 + s2 + s3 + s4 + s5 + s6)

\* The score with 30 taken off for a verified account.
_calculate_unfollow_score_verified_30(account) ==
    IF account.is_whitelisted THEN WhitelistScore
    ELSE
    LET d == Val(account.days_inactive)
        f == account.follower_count
        t == account.tweet_count
        s1 == IF d > 730 THEN 100
              ELSE IF d > 365 THEN 80
              ELSE IF d > 180 THEN 50
              ELSE IF d > 90 THEN 20 ELSE 0
        s2 == IF f < 50 THEN 30
              ELSE IF f < 500 THEN 15
              ELSE IF f < 5000 THEN 5
              ELSE IF f > 100000 THEN 0 - 20
              ELSE IF f > 1000000 THEN 0 - 50 ELSE 0
        s3 == IF account.verified THEN 0 - 30 ELSE 0
        s4 == IF account.protected THEN 10 ELSE 0
        s5 == IF account.profile_image_url \in {"", "default_profile.png"}
              THEN 15 ELSE 0
        s6 == IF t < 10 THEN 25 ELSE IF t < 100 THEN 10 ELSE 0
    IN Max(0, s1 + s2 + s3 + s4 + s5 + s6)

_calculate_unfollow_score(account) ==
    IF account.is_whitelisted THEN WhitelistScore
    ELSE
    LET d == Val(account.days_inactive)
        f == account.follower_count
        t == account.tweet_count
        s1 == IF d > 730 THEN 100
              ELSE IF d > 365 THEN 80
              ELSE IF d > 180 THEN 50
              ELSE IF d > 90 THEN 20 ELSE 0
        s2 == IF f < 50 THEN 30
              ELSE IF f < 500 THEN 15
              ELSE IF f < 5000 THEN 5
              ELSE IF f > 100000 THEN 0 - 20
              ELSE IF f > 1000000 THEN 0 - 50 ELSE 0
        s3 == IF account.verified THEN 0 - 40 ELSE 0
        s4 == IF account.protected THEN 10 ELSE 0
        s5 == IF account.profile_image_url \in {"", "default_profile.png"}
              THEN 15 ELSE 0
        s6 == IF t < 10 THEN 25 ELSE IF t < 100 THEN 10 ELSE 0
    IN Max(0, s1 + s2 + s3 + s4 + s5 + s6)

Followed(fs) == {i \in Ids : fs[i].exists /\ fs[i].unfollowed_date = NULL}

\* The loop raises at the first row whose score raises; the exception
\* leaves calculate_unfollow_scores before its commit and ends the process,
\* so no row of the loop is stored.
ScoresRaise(fs) == \E i \in Followed(fs) : ScoreRaises(fs[i])

calculate_unfollow_scores(fs) ==
    [i \in Ids |->
        IF i \in Followed(fs)
        THEN [fs[i] EXCEPT !.unfollow_score = Some(_calculate_unfollow_score(fs[i]))]
        ELSE fs[i]]

\* ------------------------------------------------ CleanerDatabase: rank
Eligible(fs, min_score) ==
    {i \in Followed(fs) : /\ ~fs[i].is_whitelisted
                          /\ fs[i].unfollow_score # NULL
                          /\ Val(fs[i].unfollow_score) >= min_score}

\* ORDER BY unfollow_score DESC, days_inactive DESC: NULL sorts below every
\* number.
DaysKey(row) == IF row.days_inactive = NULL THEN 0 - 1 ELSE Val(row.days_inactive)

\* The order with the less inactive of two rows of equal score first.
RanksBefore_days_ascending(a, b) ==
    \/ Val(a.unfollow_score) > Val(b.unfollow_score)
    \/ /\ Val(a.unfollow_score) = Val(b.unfollow_score)
       /\ DaysKey(a) < DaysKey(b)

RanksBefore(a, b) ==
    \/ Val(a.unfollow_score) > Val(b.unfollow_score)
    \/ /\ Val(a.unfollow_score) = Val(b.unfollow_score)
       /\ DaysKey(a) > DaysKey(b)

\* Every list the SELECT may return: rows that tie on both keys come in an
\* order SQL leaves open.
get_unfollow_candidates(fs, limit, min_score) ==
    LET E == Eligible(fs, min_score)
        n == Cardinality(E)
        Orders == {p \in [1..n -> E] :
                     /\ \A i, j \in 1..n : i # j => p[i] # p[j]
                     /\ \A i, j \in 1..n : i < j => ~RanksBefore(fs[p[j]], fs[p[i]])}
    IN {[k \in 1..Min(limit, n) |-> fs[p[k]]] : p \in Orders}

\* add_to_whitelist that takes 1000 off the score the row holds.
add_to_whitelist_subtracts(fs, wl, user_id) ==
    [wl |-> wl \cup {user_id},
     fs |-> IF fs[user_id].exists
            THEN [fs EXCEPT ![user_id].is_whitelisted = TRUE,
                            ![user_id].unfollow_score =
                                Some((IF @ = NULL THEN 0 ELSE Val(@)) + WhitelistScore)]
            ELSE fs]

\* --------------------------------------------- CleanerDatabase: whitelist
add_to_whitelist(fs, wl, user_id) ==
    [wl |-> wl \cup {user_id},
     fs |-> IF fs[user_id].exists
            THEN [fs EXCEPT ![user_id].is_whitelisted = TRUE,
                            ![user_id].unfollow_score = Some(WhitelistScore)]
            ELSE fs]

\* ------------------------------------------- CleanerDatabase: unfollow log
\* store_error: the INSERT raises (sqlite3.OperationalError), nothing is
\* written and log_unfollow returns False.
log_unfollow(fs, log, account, reason, batch_id, store_error) ==
    IF store_error THEN [fs |-> fs, log |-> log, ok |-> FALSE]
    ELSE [log |-> Append(log, [user_id |-> account.user_id,
                               unfollowed_date |-> Now,
                               days_inactive |-> account.days_inactive,
                               follower_count |-> account.follower_count,
                               last_tweet_date |-> account.last_tweet_date,
                               unfollow_score |-> account.unfollow_score,
                               reason |-> reason,
                               batch_id |-> batch_id]),
          fs |-> IF fs[account.user_id].exists
                 THEN [fs EXCEPT ![account.user_id].unfollowed_date = Now,
                                 ![account.user_id].unfollow_reason = Some(reason)]
                 ELSE fs,
          ok |-> TRUE]

\* =================================================================== state
NoRun == [loop |-> "none"]
NoResponse == [request |-> "none", user_id |-> 0, status |-> "none"]

Init ==
    /\ following_status = [i \in Ids |-> NoRow]
    /\ whitelist = {}
    /\ unfollow_log = <<>>
    /\ activity_checks = <<>>
    /\ pc = "idle"
    /\ todo = <<>>
    /\ run = NoRun
    /\ batches = 0
    /\ response = NoResponse
    /\ ret = NULL
    /\ _rate_limits = NoLimits
    /\ clock = 0

\* ------------------------------------------------ InactiveAccountCleaner
\* fetch_following_list: users are the accounts of the pages the gateway
\* delivered; each is upserted and counted.
FetchFollowingList(users) ==
    /\ pc = "idle" /\ ret = NULL
    /\ following_status' =
          [i \in Ids |-> IF i \in users
                         THEN add_following_account(following_status, GatewayUser(i))[i]
                         ELSE following_status[i]]
    /\ ret' = Some([op |-> "fetch_following_list", value |-> Cardinality(users)])
    /\ response' = NoResponse
    /\ UNCHANGED <<whitelist, unfollow_log, activity_checks, pc, todo, run, batches>>
    /\ UNCHANGED client

\* The lists check_account_activity is called with: user_ids are keys, so a
\* list holds none twice.
UserIdLists ==
    UNION {{q \in [1..n -> Ids] : \A i, j \in 1..n : i # j => q[i] # q[j]} :
           n \in 1..NumIds}

\* check_account_activity(user_ids), up to its loop.
CheckAccountActivityStart(user_ids) ==
    /\ pc = "idle" /\ ret = NULL
    /\ Len(activity_checks) + Len(user_ids) <= MaxChecks
    /\ pc' = "probing"
    /\ todo' = user_ids
    /\ run' = [loop |-> "check_account_activity", user_ids |-> user_ids,
               checked_count |-> 0, answers |-> <<>>]
    /\ response' = NoResponse
    /\ UNCHANGED <<store, batches, ret>>
    /\ UNCHANGED client

\* What requests.get gives: a status code, or "exception" when it raises.
TweetStatuses == {"200", "404", "401", "429", "500", "exception"}

\* A pass of check_account_activity whose 429 branch goes on to the next id.
check_account_activity_pass_no_break(st, user_id, status, tweets) ==
    CASE status = "200" ->
           LET activity_data == [last_tweet_age |-> IF tweets
                                                    THEN Some(TweetAge(user_id))
                                                    ELSE NULL]
               u == update_account_activity(st.fs, st.ac, user_id, activity_data)
           IN [fs |-> u.fs, ac |-> u.ac, checked_count |-> st.checked_count + 1,
               goes_on |-> TRUE]
      [] status = "404" ->
           LET u == update_account_activity(st.fs, st.ac, user_id,
                                            [last_tweet_age |-> NULL])
           IN [fs |-> u.fs, ac |-> u.ac, checked_count |-> st.checked_count + 1,
               goes_on |-> TRUE]
      [] status = "401" ->
           [fs |-> st.fs, ac |-> st.ac, checked_count |-> st.checked_count + 1,
            goes_on |-> TRUE]
      [] OTHER ->
           [fs |-> st.fs, ac |-> st.ac, checked_count |-> st.checked_count,
            goes_on |-> TRUE]

\* A pass of check_account_activity whose last branch counts the id as
\* checked.
check_account_activity_pass_error_counts(st, user_id, status, tweets) ==
    CASE status = "200" ->
           LET activity_data == [last_tweet_age |-> IF tweets
                                                    THEN Some(TweetAge(user_id))
                                                    ELSE NULL]
               u == update_account_activity(st.fs, st.ac, user_id, activity_data)
           IN [fs |-> u.fs, ac |-> u.ac, checked_count |-> st.checked_count + 1,
               goes_on |-> TRUE]
      [] status = "404" ->
           LET u == update_account_activity(st.fs, st.ac, user_id,
                                            [last_tweet_age |-> NULL])
           IN [fs |-> u.fs, ac |-> u.ac, checked_count |-> st.checked_count + 1,
               goes_on |-> TRUE]
      [] status = "401" ->
           [fs |-> st.fs, ac |-> st.ac, checked_count |-> st.checked_count + 1,
            goes_on |-> TRUE]
      [] status = "429" ->
           [fs |-> st.fs, ac |-> st.ac, checked_count |-> st.checked_count,
            goes_on |-> FALSE]
      [] OTHER ->
           [fs |-> st.fs, ac |-> st.ac, checked_count |-> st.checked_count + 1,
            goes_on |-> TRUE]

\* One pass of the loop of check_account_activity for the answer of the
\* gateway (tweets: the 200 answer holds a tweet); st is
\* [fs, ac, checked_count], the result adds whether the loop goes on.
check_account_activity_pass(st, user_id, status, tweets) ==
    CASE status = "200" ->
           LET activity_data == [last_tweet_age |-> IF tweets
                                                    THEN Some(TweetAge(user_id))
                                                    ELSE NULL]
               u == update_account_activity(st.fs, st.ac, user_id, activity_data)
           IN [fs |-> u.fs, ac |-> u.ac, checked_count |-> st.checked_count + 1,
               goes_on |-> TRUE]
      [] status = "404" ->
           LET u == update_account_activity(st.fs, st.ac, user_id,
                                            [last_tweet_age |-> NULL])
           IN [fs |-> u.fs, ac |-> u.ac, checked_count |-> st.checked_count + 1,
               goes_on |-> TRUE]
      [] status = "401" ->
           [fs |-> st.fs, ac |-> st.ac, checked_count |-> st.checked_count + 1,
            goes_on |-> TRUE]
      [] status = "429" ->
           [fs |-> st.fs, ac |-> st.ac, checked_count |-> st.checked_count,
            goes_on |-> FALSE]
      [] OTHER ->
           [fs |-> st.fs, ac |-> st.ac, checked_count |-> st.checked_count,
            goes_on |-> TRUE]

CheckAccountActivityStep(status, tweets) ==
    /\ pc = "probing"
    /\ LET user_id == Head(todo)
           r == check_account_activity_pass(
                    [fs |-> following_status, ac |-> activity_checks,
                     checked_count |-> run.checked_count], user_id, status, tweets)
           last == ~r.goes_on \/ Tail(todo) = <<>>
       IN /\ response' = [request |-> "tweets", user_id |-> user_id, status |-> status]
          /\ following_status' = r.fs
          /\ activity_checks' = r.ac
          /\ IF last
             THEN /\ pc' = "idle"
                  /\ todo' = <<>>
                  /\ run' = NoRun
                  /\ ret' = Some([op |-> "check_account_activity",
                                  value |-> r.checked_count])
             ELSE /\ pc' = "probing"
                  /\ todo' = Tail(todo)
                  /\ run' = [run EXCEPT !.checked_count = r.checked_count,
                                        !.answers = Append(@, status)]
                  /\ ret' = ret
    /\ UNCHANGED <<whitelist, unfollow_log, batches>>
    /\ UNCHANGED client

\* calculate_and_score_accounts
CalculateAndScoreAccounts ==
    /\ pc = "idle" /\ ret = NULL
    /\ IF ScoresRaise(following_status)
       THEN /\ following_status' = following_status
            /\ ret' = Some([op |-> "calculate_unfollow_scores", raised |-> "TypeError"])
       ELSE /\ following_status' = calculate_unfollow_scores(following_status)
            /\ ret' = Some([op |-> "calculate_unfollow_scores",
                             value |-> Cardinality(Followed(following_status))])
    /\ response' = NoResponse
    /\ UNCHANGED <<whitelist, unfollow_log, activity_checks, pc, todo, run, batches>>
    /\ UNCHANGED client

\* {days:3d} raises TypeError for None among the candidates it prints.
PlanRaises(candidates) ==
    \E k \in 1..Min(TopShown, Len(candidates)) : candidates[k].days_inactive = NULL

\* get_unfollow_plan as run_full_cleaning_cycle calls it: a plan that is
\* not empty waits for the operator's confirmation.
GetUnfollowPlan ==
    /\ pc = "idle" /\ ret = NULL
    /\ \E candidates \in get_unfollow_candidates(following_status,
                              max_unfollows_per_run, min_unfollow_score) :
          IF PlanRaises(candidates)
          THEN /\ ret' = Some([op |-> "get_unfollow_plan", raised |-> "TypeError"])
               /\ UNCHANGED <<pc, todo>>
          ELSE /\ ret' = Some([op |-> "get_unfollow_plan", value |-> candidates])
               /\ todo' = candidates
               /\ pc' = IF candidates = <<>> THEN "idle" ELSE "planned"
    /\ response' = NoResponse
    /\ UNCHANGED <<store, run, batches>>
    /\ UNCHANGED client

\* The operator declines: run_full_cleaning_cycle returns.
CancelPlan ==
    /\ pc = "planned" /\ ret = NULL
    /\ pc' = "idle"
    /\ todo' = <<>>
    /\ ret' = Some([op |-> "run_full_cleaning_cycle", value |-> "cancelled"])
    /\ UNCHANGED <<store, run, batches, response>>
    /\ UNCHANGED client

\* execute_unfollows(accounts), up to its loop; batch_id is fresh.
ExecuteUnfollowsStart(dry_run) ==
    /\ pc = "planned" /\ ret = NULL
    /\ batches < MaxBatches
    /\ pc' = "executing"
    /\ batches' = batches + 1
    /\ run' = [loop |-> "execute_unfollows", dry_run |-> dry_run,
               batch_id |-> batches + 1, accounts |-> todo,
               success_count |-> 0, error_count |-> 0]
    /\ response' = NoResponse
    /\ UNCHANGED <<store, todo, ret>>
    /\ UNCHANGED client

\* What requests.delete gives: a status code, or "exception" when it raises.
UnfollowStatuses == {"200", "404", "429", "500", "exception"}

\* The pass of a dry run: the candidate counts as a success, no request is
\* sent and nothing is written.
execute_unfollows_dry(st) ==
    [fs |-> st.fs, log |-> st.log,
     success_count |-> st.success_count + 1,
     error_count |-> st.error_count, goes_on |-> TRUE, requested |-> FALSE]

\* A live pass with the 429 branch taken for an error like any other.
execute_unfollows_live_no_abort(st, account, batch_id, status, store_error) ==
    CASE status = "200" ->
           LET reason == [days_inactive |-> account.days_inactive,
                          score |-> account.unfollow_score]
               w == log_unfollow(st.fs, st.log, account, reason, batch_id, store_error)
           IN [fs |-> w.fs, log |-> w.log,
               success_count |-> st.success_count + 1,
               error_count |-> st.error_count, goes_on |-> TRUE, requested |-> TRUE]
      [] status = "404" ->
           [fs |-> st.fs, log |-> st.log,
            success_count |-> st.success_count + 1,
            error_count |-> st.error_count, goes_on |-> TRUE, requested |-> TRUE]
      [] OTHER ->
           [fs |-> st.fs, log |-> st.log,
            success_count |-> st.success_count,
            error_count |-> st.error_count + 1, goes_on |-> TRUE, requested |-> TRUE]

\* A live pass whose error branch leaves the loop.
execute_unfollows_live_error_stops(st, account, batch_id, status, store_error) ==
    CASE status = "200" ->
           LET reason == [days_inactive |-> account.days_inactive,
                          score |-> account.unfollow_score]
               w == log_unfollow(st.fs, st.log, account, reason, batch_id, store_error)
           IN [fs |-> w.fs, log |-> w.log,
               success_count |-> st.success_count + 1,
               error_count |-> st.error_count, goes_on |-> TRUE, requested |-> TRUE]
      [] status = "404" ->
           [fs |-> st.fs, log |-> st.log,
            success_count |-> st.success_count + 1,
            error_count |-> st.error_count, goes_on |-> TRUE, requested |-> TRUE]
      [] status = "429" ->
           [fs |-> st.fs, log |-> st.log,
            success_count |-> st.success_count,
            error_count |-> st.error_count, goes_on |-> FALSE, requested |-> TRUE]
      [] OTHER ->
           [fs |-> st.fs, log |-> st.log,
            success_count |-> st.success_count,
            error_count |-> st.error_count + 1, goes_on |-> FALSE, requested |-> TRUE]

\* A live pass whose 404 branch leaves the loop.
execute_unfollows_live_404_stops(st, account, batch_id, status, store_error) ==
    CASE status = "200" ->
           LET reason == [days_inactive |-> account.days_inactive,
                          score |-> account.unfollow_score]
               w == log_unfollow(st.fs, st.log, account, reason, batch_id, store_error)
           IN [fs |-> w.fs, log |-> w.log,
               success_count |-> st.success_count + 1,
               error_count |-> st.error_count, goes_on |-> TRUE, requested |-> TRUE]
      [] status = "404" ->
           [fs |-> st.fs, log |-> st.log,
            success_count |-> st.success_count + 1,
            error_count |-> st.error_count, goes_on |-> FALSE, requested |-> TRUE]
      [] status = "429" ->
           [fs |-> st.fs, log |-> st.log,
            success_count |-> st.success_count,
            error_count |-> st.error_count, goes_on |-> FALSE, requested |-> TRUE]
      [] OTHER ->
           [fs |-> st.fs, log |-> st.log,
            success_count |-> st.success_count,
            error_count |-> st.error_count + 1, goes_on |-> TRUE, requested |-> TRUE]

\* One live pass of the loop of execute_unfollows; st is
\* [fs, log, success_count, error_count], the result adds whether the loop
\* goes on and whether a request was sent.  store_error: log_unfollow fails;
\* its result is not looked at.
execute_unfollows_live(st, account, batch_id, status, store_error) ==
    CASE status = "200" ->
           LET reason == [days_inactive |-> account.days_inactive,
                          score |-> account.unfollow_score]
               w == log_unfollow(st.fs, st.log, account, reason, batch_id, store_error)
           IN [fs |-> w.fs, log |-> w.log,
               success_count |-> st.success_count + 1,
               error_count |-> st.error_count, goes_on |-> TRUE, requested |-> TRUE]
      [] status = "404" ->
           [fs |-> st.fs, log |-> st.log,
            success_count |-> st.success_count + 1,
            error_count |-> st.error_count, goes_on |-> TRUE, requested |-> TRUE]
      [] status = "429" ->
           [fs |-> st.fs, log |-> st.log,
            success_count |-> st.success_count,
            error_count |-> st.error_count, goes_on |-> FALSE, requested |-> TRUE]
      [] OTHER ->
           [fs |-> st.fs, log |-> st.log,
            success_count |-> st.success_count,
            error_count |-> st.error_count + 1, goes_on |-> TRUE, requested |-> TRUE]

\* The pass with the dry_run test left out.
execute_unfollows_pass_always_live(st, account, dry_run, batch_id, status, store_error) ==
    execute_unfollows_live(st, account, batch_id, status, store_error)

\* One pass of the loop of execute_unfollows.
execute_unfollows_pass(st, account, dry_run, batch_id, status, store_error) ==
    IF dry_run
    THEN execute_unfollows_dry(st)
    ELSE execute_unfollows_live(st, account, batch_id, status, store_error)

ExecuteUnfollowsStep(status, store_error) ==
    /\ pc = "executing"
    /\ LET account == Head(todo)
           r == execute_unfollows_pass(
                    [fs |-> following_status, log |-> unfollow_log,
                     success_count |-> run.success_count,
                     error_count |-> run.error_count],
                    account, run.dry_run, run.batch_id, status, store_error)
           last == ~r.goes_on \/ Tail(todo) = <<>>
       IN /\ response' = IF r.requested
                         THEN [request |-> "unfollow", user_id |-> account.user_id,
                               status |-> status]
                         ELSE response
          /\ following_status' = r.fs
          /\ unfollow_log' = r.log
          /\ IF last
             THEN /\ pc' = "idle"
                  /\ todo' = <<>>
                  /\ run' = NoRun
                  /\ ret' = Some([op |-> "execute_unfollows",
                                  value |-> <<r.success_count, r.error_count>>])
             ELSE /\ pc' = "executing"
                  /\ todo' = Tail(todo)
                  /\ run' = [run EXCEPT !.success_count = r.success_count,
                                        !.error_count = r.error_count]
                  /\ ret' = ret
    /\ UNCHANGED <<whitelist, activity_checks, batches>>
    /\ UNCHANGED client

\* ------------------------------------------------------ WhitelistManager
\* add_to_whitelist(identifier): found is whether the gateway's lookup
\* resolved the identifier; replaced is whether INSERT OR REPLACE met a
\* whitelist row with the user_id.
AddToWhitelist(user_id, found) ==
    /\ pc \in {"idle", "planned"} /\ ret = NULL
    /\ IF found
       THEN LET w == add_to_whitelist(following_status, whitelist, user_id)
            IN /\ whitelist' = w.wl
               /\ following_status' = w.fs
       ELSE UNCHANGED <<whitelist, following_status>>
    /\ ret' = Some([op |-> "add_to_whitelist", user_id |-> user_id,
                     replaced |-> found /\ user_id \in whitelist,
                     value |-> found])
    /\ UNCHANGED <<unfollow_log, activity_checks, pc, todo, run, batches, response>>
    /\ UNCHANGED client

\* remove_from_whitelist(identifier) for a numeric identifier.  rowcount is
\* that of the UPDATE of following_status: with no row there, nothing is
\* committed and the DELETE is lost when the command ends.
RemoveFromWhitelist(user_id) ==
    /\ pc \in {"idle", "planned"} /\ ret = NULL
    /\ IF following_status[user_id].exists
       THEN /\ whitelist' = whitelist \ {user_id}
            /\ following_status' =
                  [following_status EXCEPT ![user_id].is_whitelisted = FALSE]
            /\ ret' = Some([op |-> "remove_from_whitelist", user_id |-> user_id,
                            value |-> TRUE])
       ELSE /\ UNCHANGED <<whitelist, following_status>>
            /\ ret' = Some([op |-> "remove_from_whitelist", user_id |-> user_id,
                            value |-> FALSE])
    /\ UNCHANGED <<unfollow_log, activity_checks, pc, todo, run, batches, response>>
    /\ UNCHANGED client

\* What one add of bulk_add_from_list meets: the lookup resolves the name
\* and both statements run and commit ("ok"), the lookup fails
\* ("not_found"), or the INSERT runs and the UPDATE raises
\* (sqlite3.OperationalError), which the except branch answers with False
\* and no rollback ("update_fails").
AddOutcomes == {"ok", "not_found", "update_fails"}

\* The loop of bulk_add_from_list over one connection; st is
\* [fs, wl, pending, added_count], pending the whitelist rows that are
\* inserted and not committed: the commit of a later add commits them.
RECURSIVE bulk_add_from_list(_, _, _)
bulk_add_from_list(st, usernames, outcome) ==
    IF usernames = <<>> THEN st
    ELSE LET user_id == Head(usernames)
             after ==
                CASE outcome[user_id] = "ok" ->
                       LET w == add_to_whitelist(st.fs, st.wl \cup st.pending, user_id)
                       IN [fs |-> w.fs, wl |-> w.wl, pending |-> {},
                           added_count |-> st.added_count + 1]
                  [] outcome[user_id] = "update_fails" ->
                       [st EXCEPT !.pending = @ \cup {user_id}]
                  [] OTHER -> st
         IN bulk_add_from_list(after, Tail(usernames), outcome)

\* bulk_add_from_list(usernames): what is not committed when the command
\* ends is lost.
BulkAddFromList(usernames, outcome) ==
    /\ pc \in {"idle", "planned"} /\ ret = NULL
    /\ LET r == bulk_add_from_list(
                    [fs |-> following_status, wl |-> whitelist, pending |-> {},
                     added_count |-> 0], usernames, outcome)
       IN /\ whitelist' = r.wl
          /\ following_status' = r.fs
          /\ ret' = Some([op |-> "bulk_add_from_list", value |-> r.added_count])
    /\ UNCHANGED <<unfollow_log, activity_checks, pc, todo, run, batches, response>>
    /\ UNCHANGED client

RECURSIVE AddAll(_, _, _)
AddAll(fs, wl, S) ==
    IF S = {} THEN [fs |-> fs, wl |-> wl]
    ELSE LET i == CHOOSE x \in S : TRUE
             w == add_to_whitelist(fs, wl, i)
         IN AddAll(w.fs, w.wl, S \ {i})

auto_whitelist_verified(fs) ==
    {i \in Followed(fs) : fs[i].verified /\ ~fs[i].is_whitelisted}

auto_whitelist_high_followers(fs, min_followers) ==
    {i \in Followed(fs) : fs[i].follower_count >= min_followers /\ ~fs[i].is_whitelisted}

AutoWhitelist(S, op) ==
    /\ pc \in {"idle", "planned"} /\ ret = NULL
    /\ LET w == AddAll(following_status, whitelist, S)
       IN /\ whitelist' = w.wl
          /\ following_status' = w.fs
    /\ ret' = Some([op |-> op, value |-> Cardinality(S)])
    /\ UNCHANGED <<unfollow_log, activity_checks, pc, todo, run, batches, response>>
    /\ UNCHANGED client

AutoWhitelistVerified ==
    AutoWhitelist(auto_whitelist_verified(following_status), "auto_whitelist_verified")

AutoWhitelistHighFollowers ==
    AutoWhitelist(auto_whitelist_high_followers(following_status, HighFollowers),
                  "auto_whitelist_high_followers")

\* The caller takes the result of the operation that returned.
TakeResult ==
    /\ ret # NULL
    /\ ret' = NULL
    /\ response' = NoResponse
    /\ UNCHANGED <<store, pc, todo, run, batches>>
    /\ UNCHANGED client

\* ==================================================================== spec
Next ==
    \/ \E users \in SUBSET Ids : FetchFollowingList(users)
    \/ \E user_ids \in UserIdLists : CheckAccountActivityStart(user_ids)
    \/ \E status \in TweetStatuses, tweets \in BOOLEAN :
          CheckAccountActivityStep(status, tweets)
    \/ CalculateAndScoreAccounts
    \/ GetUnfollowPlan
    \/ CancelPlan
    \/ \E dry_run \in BOOLEAN : ExecuteUnfollowsStart(dry_run)
    \/ \E status \in UnfollowStatuses, store_error \in BOOLEAN :
          ExecuteUnfollowsStep(status, store_error)
    \/ \E user_id \in Ids, found \in BOOLEAN : AddToWhitelist(user_id, found)
    \/ \E user_id \in Ids : RemoveFromWhitelist(user_id)
    \/ \E usernames \in UserIdLists, outcome \in [Ids -> AddOutcomes] :
          BulkAddFromList(usernames, outcome)
    \/ AutoWhitelistVerified
    \/ AutoWhitelistHighFollowers
    \/ TakeResult

Spec == Init /\ [][Next]_vars

\* ================================================================== claims
\* The user_ids of the rows rank (get_unfollow_candidates with the
\* configured limit and threshold) may return in the store fs.
ReturnedByRank(fs) ==
    UNION {{c[k].user_id : k \in 1..Len(c)} :
           c \in get_unfollow_candidates(fs, max_unfollows_per_run, min_unfollow_score)}

Terminal(fs) == {i \in Ids : fs[i].exists /\ fs[i].unfollowed_date # NULL}

\* The operation that returns in this step.
Returns(op) == ret = NULL /\ ret' # NULL /\ Val(ret').op = op

\* C1 (as claimed): an account that has a WhitelistEntry is never returned
\* by rank, and no live unfollow request (the only step that sets
\* unfollowed_date) is sent for it.
C1_WhitelistVeto ==
    /\ ReturnedByRank(following_status) \cap whitelist = {}
    /\ response.request = "unfollow" => response.user_id \notin whitelist

\* C2 (as claimed): for every Account row, a WhitelistEntry with its
\* user_id exists if and only if is_whitelisted is true.
C2_WhitelistSync ==
    \A i \in Ids : following_status[i].exists =>
        (i \in whitelist <=> following_status[i].is_whitelisted)

\* C3 (as claimed): the upsert of the following-list fetch leaves a non-null
\* unfollowed_date as it is.
C3_UpsertKeepsUnfollowedDate ==
    [][Returns("fetch_following_list") =>
        \A i \in Terminal(following_status) :
            following_status'[i].unfollowed_date = following_status[i].unfollowed_date]_vars

\* C4 (as claimed): recompute_all, probe (any pass of its loop) and rank
\* leave every field of an Account with unfollowed_date set unchanged and
\* never return it as a candidate.
C4_TerminalImmunity ==
    [][(\/ pc = "probing"
        \/ Returns("calculate_unfollow_scores")
        \/ Returns("get_unfollow_plan")) =>
        \A i \in Terminal(following_status) :
            /\ following_status'[i] = following_status[i]
            /\ i \notin ReturnedByRank(following_status')]_vars

\* ------------------------------------------------------- the two loops
LiveStep == pc = "executing" /\ ~run.dry_run
DryStep == pc = "executing" /\ run.dry_run
ProbeStep == pc = "probing"

\* <<success_count, error_count>> after a pass of execute_unfollows: the
\* locals, or what the function returns when the pass was the last.
CountsAfter ==
    IF pc' = "idle" THEN Val(ret').value
    ELSE <<run'.success_count, run'.error_count>>

\* checked_count after a pass of check_account_activity.
CheckedAfter == IF pc' = "idle" THEN Val(ret').value ELSE run'.checked_count

\* C5: every pass of a dry run leaves the four tables as they are, sends no
\* request, leaves unfollowed_date of every candidate NULL and adds one to
\* success_count only; the run over N candidates returns (N, 0).
C5_DryRunNonMutation ==
    [][DryStep =>
        /\ store' = store
        /\ response' = NoResponse
        /\ \A k \in 1..Len(run.accounts) :
              following_status'[run.accounts[k].user_id].unfollowed_date = NULL
        /\ CountsAfter = <<run.success_count + 1, 0>>
        /\ pc' = "idle" => Val(ret').value = <<Len(run.accounts), 0>>]_vars

\* A dry run over two candidates has returned (2, 0).
C5_Witness ==
    /\ ret # NULL /\ Val(ret).op = "execute_unfollows"
    /\ response = NoResponse
    /\ Val(ret).value = <<2, 0>>

\* C6 (as claimed): a live pass answered 404 counts a success, sets
\* unfollowed_date of the Account, so that rank no longer returns it, and
\* writes no UnfollowLogEntry.
C6_NotFoundMarksTerminal ==
    [][(LiveStep /\ response'.status = "404") =>
        /\ CountsAfter = <<run.success_count + 1, run.error_count>>
        /\ following_status'[Head(todo).user_id].unfollowed_date # NULL
        /\ Head(todo).user_id \notin ReturnedByRank(following_status')
        /\ unfollow_log' = unfollow_log]_vars

\* C7 (as claimed): a live pass answered 200 appends exactly one
\* UnfollowLogEntry with the batch_id of the run, sets unfollowed_date and
\* unfollow_reason of the Account and counts a success; a success is counted
\* only with both writes done.
C7_ConfirmedRemoval ==
    [][(LiveStep /\ response'.status = "200") =>
        /\ CountsAfter = <<run.success_count + 1, run.error_count>>
        /\ Len(unfollow_log') = Len(unfollow_log) + 1
        /\ SubSeq(unfollow_log', 1, Len(unfollow_log)) = unfollow_log
        /\ unfollow_log'[Len(unfollow_log')].batch_id = run.batch_id
        /\ unfollow_log'[Len(unfollow_log')].user_id = Head(todo).user_id
        /\ following_status'[Head(todo).user_id].unfollowed_date # NULL
        /\ following_status'[Head(todo).user_id].unfollow_reason # NULL]_vars

\* C8: a live pass answered 429 ends the loop, so that no request is sent
\* for a later candidate; it changes no table (the candidates before keep
\* their outcomes, this one and the later ones are unmodified), returns the
\* counts reached so far, and every candidate from this one on that rank
\* returned before the pass is returned by rank after it.
C8_ExecutorRateLimitAbort ==
    [][(LiveStep /\ response'.status = "429") =>
        /\ pc' = "idle" /\ todo' = <<>>
        /\ store' = store
        /\ Val(ret').value = <<run.success_count, run.error_count>>
        /\ \A k \in 1..Len(todo) :
              todo[k].user_id \in ReturnedByRank(following_status)
                  => todo[k].user_id \in ReturnedByRank(following_status')]_vars

\* A live run over two candidates was stopped by a 429 at the second.
C8_Witness ==
    /\ ret # NULL /\ Val(ret).op = "execute_unfollows"
    /\ response.request = "unfollow" /\ response.status = "429"
    /\ Val(ret).value = <<1, 0>>
    /\ Terminal(following_status) # {}
    /\ ReturnedByRank(following_status) # {}

\* C9: a live pass answered by another status or by an exception adds one
\* to error_count only, changes no table, leaves the candidate returned by
\* rank if it was, and the loop goes on to the next candidate.
C9_ExecutorSoftFailure ==
    [][(LiveStep /\ response'.status \in {"500", "exception"}) =>
        /\ CountsAfter = <<run.success_count, run.error_count + 1>>
        /\ store' = store
        /\ Head(todo).user_id \in ReturnedByRank(following_status)
              => Head(todo).user_id \in ReturnedByRank(following_status')
        /\ IF Tail(todo) # <<>>
           THEN pc' = "executing" /\ todo' = Tail(todo)
           ELSE pc' = "idle"]_vars

\* A live run goes on after an error at its first candidate.
C9_Witness ==
    /\ pc = "executing" /\ ~run.dry_run
    /\ response.status \in {"500", "exception"}
    /\ run.error_count = 1
    /\ todo # <<>>
    /\ response.user_id \in ReturnedByRank(following_status)

C11_ProbeSoftFailure ==
    [][(ProbeStep /\ response'.status \in {"500", "exception"}) =>
        /\ store' = store
        /\ CheckedAfter = run.checked_count
        /\ IF Tail(todo) # <<>>
           THEN pc' = "probing" /\ todo' = Tail(todo)
           ELSE pc' = "idle"]_vars

\* A probe of two ids goes on after an error at the first, whose Account
\* exists.
C11_Witness ==
    /\ pc = "probing"
    /\ response.request = "tweets" /\ response.status \in {"500", "exception"}
    /\ following_status[response.user_id].exists
    /\ run.checked_count = 0
    /\ todo # <<>>

\* A pass of the probe answered 200 with no tweet, or answered 404.
NoTweetsStep ==
    \/ CheckAccountActivityStep("200", FALSE)
    \/ \E tweets \in BOOLEAN : CheckAccountActivityStep("404", tweets)

ScoreDays == {NULL} \cup {Some(d) : d \in {0, 89, 91, 179, 181, 366, 731}}
ScoreFollowers ==
    {0, 49, 50, 499, 500, 4999, 5000, 100000, 100001, 1000000, 1000001}
ScoreTweets == {9, 10, 99, 100}
ScoreImages == {"", "pic.jpg", "default_profile.png"}

\* The rows of following_status with these values.
ScoreAccounts ==
    {[exists |-> TRUE,
      user_id |-> 1,
      follower_count |-> f,
      tweet_count |-> t,
      verified |-> v,
      protected |-> p,
      profile_image_url |-> u,
      first_seen_date |-> Now,
      last_checked_date |-> Now,
      last_tweet_date |-> d,
      days_inactive |-> d,
      check_count |-> 1,
      unfollow_score |-> NULL,
      is_whitelisted |-> w,
      unfollowed_date |-> NULL,
      unfollow_reason |-> NULL] :
        f \in ScoreFollowers, t \in ScoreTweets, v \in BOOLEAN, p \in BOOLEAN,
        u \in ScoreImages, d \in ScoreDays, w \in BOOLEAN}

\* A store that holds one of these rows.
ScoreInit ==
    /\ \E a \in ScoreAccounts :
          /\ following_status = [i \in Ids |-> IF i = 1 THEN a ELSE NoRow]
          /\ whitelist = IF a.is_whitelisted THEN {1} ELSE {}
    /\ unfollow_log = <<>>
    /\ activity_checks = <<>>
    /\ pc = "idle"
    /\ todo = <<>>
    /\ run = NoRun
    /\ batches = 0
    /\ response = NoResponse
    /\ ret = NULL
    /\ _rate_limits = NoLimits
    /\ clock = 0

\* _calculate_unfollow_score(account) for the row of user_id.
ScoreAccount(user_id) ==
    /\ pc = "idle" /\ ret = NULL
    /\ following_status[user_id].exists
    /\ ret' = Some(IF ScoreRaises(following_status[user_id])
                   THEN [op |-> "_calculate_unfollow_score", user_id |-> user_id,
                         raised |-> "TypeError"]
                   ELSE [op |-> "_calculate_unfollow_score", user_id |-> user_id,
                         value |-> _calculate_unfollow_score(following_status[user_id])])
    /\ UNCHANGED <<store, pc, todo, run, batches, response>>
    /\ UNCHANGED client

ScoreNext ==
    \/ \E user_id \in Ids : ScoreAccount(user_id)
    \/ CalculateAndScoreAccounts
    \/ TakeResult

SpecScore == ScoreInit /\ [][ScoreNext]_vars

\* _calculate_unfollow_score has returned for the row a call was made for.
Scored == ret # NULL /\ Val(ret).op = "_calculate_unfollow_score"
ScoredAccount == following_status[Val(ret).user_id]

\* C13: for a row with is_whitelisted set, _calculate_unfollow_score returns
\* -1000, below the clamp to 0, whatever the other columns hold (NULL
\* days_inactive included).
C13_WhitelistSentinel ==
    (Scored /\ ScoredAccount.is_whitelisted) =>
        /\ "value" \in DOMAIN Val(ret)
        /\ Val(ret).value = 0 - 1000

\* A whitelisted row that would score 100 + 30 + 10 + 15 + 25 otherwise.
C13_Witness ==
    /\ Scored /\ ScoredAccount.is_whitelisted
    /\ ScoredAccount.days_inactive = Some(731)
    /\ ScoredAccount.follower_count = 0
    /\ ~ScoredAccount.verified /\ ScoredAccount.protected
    /\ ScoredAccount.profile_image_url = ""
    /\ ScoredAccount.tweet_count = 9
    /\ Val(ret).value = WhitelistScore

\* C14 (as claimed): for a row that is not whitelisted and whose
\* days_inactive is NULL, _calculate_unfollow_score returns an integer, the
\* one it returns for the same row with days_inactive 0 (the inactivity
\* weight adds 0), and calculate_unfollow_scores completes.
C14_UnknownActivityScored ==
    /\ (Scored /\ ~ScoredAccount.is_whitelisted
               /\ ScoredAccount.days_inactive = NULL) =>
          /\ "value" \in DOMAIN Val(ret)
          /\ Val(ret).value =
                _calculate_unfollow_score([ScoredAccount EXCEPT !.days_inactive = Some(0)])
    /\ (ret # NULL /\ Val(ret).op = "calculate_unfollow_scores") =>
          "value" \in DOMAIN Val(ret)

\* C15 (as claimed): the follower_count of a row that is not whitelisted
\* adds +30 below 50, +15 below 500, +5 below 5000, -50 above 1,000,000,
\* -20 above 100,000 and 0 otherwise.  Stated against the score of the same
\* row with follower_count 5000 (weight 0), where that score is above the
\* clamp.
C15_FollowerBrackets ==
    (Scored /\ "value" \in DOMAIN Val(ret) /\ ~ScoredAccount.is_whitelisted) =>
        LET f == ScoredAccount.follower_count
            weight == IF f < 50 THEN 30
                      ELSE IF f < 500 THEN 15
                      ELSE IF f < 5000 THEN 5
                      ELSE IF f > 1000000 THEN 0 - 50
                      ELSE IF f > 100000 THEN 0 - 20 ELSE 0
            base == _calculate_unfollow_score(
                        [ScoredAccount EXCEPT !.follower_count = 5000])
        IN base > 0 => Val(ret).value = Max(0, base + weight)

\* C16 (as claimed): for a row that is not whitelisted, whatever the other
\* columns hold, the score at days_inactive 91 is the score at 89 plus 20,
\* the score at 181 is the score at 179 plus 30, and the score of a verified
\* row is the score of the same row unverified minus 40.
C16_ExactDeltas ==
    (Scored /\ "value" \in DOMAIN Val(ret) /\ ~ScoredAccount.is_whitelisted) =>
        LET a == ScoredAccount
            v == Val(ret).value
        IN /\ a.days_inactive = Some(91) =>
                v = _calculate_unfollow_score([a EXCEPT !.days_inactive = Some(89)]) + 20
           /\ a.days_inactive = Some(181) =>
                v = _calculate_unfollow_score([a EXCEPT !.days_inactive = Some(179)]) + 30
           /\ a.verified =>
                v = _calculate_unfollow_score([a EXCEPT !.verified = FALSE]) - 40

\* C16 (amended): the three differences are exactly 20, 30 and 40 where the
\* lower of the two scores is above 0; where the lower score is 0, the
\* clamp has cut it and the higher score is between 0 and 20, 30 and 40.
C16_ExactDeltasAboveClamp ==
    (Scored /\ "value" \in DOMAIN Val(ret) /\ ~ScoredAccount.is_whitelisted) =>
        LET a == ScoredAccount
            v == Val(ret).value
            at89 == _calculate_unfollow_score([a EXCEPT !.days_inactive = Some(89)])
            at179 == _calculate_unfollow_score([a EXCEPT !.days_inactive = Some(179)])
            unverified == _calculate_unfollow_score([a EXCEPT !.verified = FALSE])
        IN /\ a.days_inactive = Some(91) =>
                IF at89 > 0 THEN v = at89 + 20 ELSE v \in 0..20
           /\ a.days_inactive = Some(181) =>
                IF at179 > 0 THEN v = at179 + 30 ELSE v \in 0..30
           /\ a.verified =>
                IF v > 0 THEN unverified = v + 40 ELSE unverified \in 0..40

\* A verified row at 91 days whose scores are above the clamp on both sides
\* of both differences.
C16_Witness ==
    /\ Scored /\ "value" \in DOMAIN Val(ret)
    /\ ~ScoredAccount.is_whitelisted
    /\ ScoredAccount.days_inactive = Some(91)
    /\ ScoredAccount.verified
    /\ Val(ret).value > 20

\* ============================================================= the rank
\* The decision columns of a row of following_status: a whitelisted row
\* holds the score -1000 that add_to_whitelist wrote; a row that is not
\* whitelisted holds no score, the score -1000 that a whitelisting left, or a
\* score that calculate_unfollow_scores wrote; days_inactive is NULL or a
\* number of days; a row with unfollowed_date holds a score.
RankDecisions ==
    {x \in [unfollow_score : {NULL, Some(WhitelistScore), Some(50), Some(90)},
            days_inactive : {NULL, Some(100), Some(800)},
            is_whitelisted : BOOLEAN,
            unfollowed_date : {NULL, Now}] :
        /\ x.is_whitelisted => x.unfollow_score = Some(WhitelistScore)
        /\ x.unfollowed_date # NULL => x.unfollow_score # NULL}

\* A store whose following_status rows hold these decision columns.
RankInit ==
    /\ following_status \in [Ids -> {NoRow} \cup
            UNION {{[exists |-> TRUE,
                     user_id |-> i,
                     follower_count |-> GatewayUser(i).followers_count,
                     tweet_count |-> GatewayUser(i).tweet_count,
                     verified |-> GatewayUser(i).verified,
                     protected |-> GatewayUser(i).protected,
                     profile_image_url |-> GatewayUser(i).profile_image_url,
                     first_seen_date |-> Now,
                     last_checked_date |-> Now,
                     last_tweet_date |-> x.days_inactive,
                     days_inactive |-> x.days_inactive,
                     check_count |-> 1,
                     unfollow_score |-> x.unfollow_score,
                     is_whitelisted |-> x.is_whitelisted,
                     unfollowed_date |-> x.unfollowed_date,
                     unfollow_reason |-> NULL] : x \in RankDecisions} : i \in Ids}]
    /\ \A i \in Ids : following_status[i].exists => following_status[i].user_id = i
    /\ whitelist = {i \in Ids : following_status[i].exists
                                  /\ following_status[i].is_whitelisted}
    /\ unfollow_log = <<>>
    /\ activity_checks = <<>>
    /\ pc = "idle"
    /\ todo = <<>>
    /\ run = NoRun
    /\ batches = 0
    /\ response = NoResponse
    /\ ret = NULL
    /\ _rate_limits = NoLimits
    /\ clock = 0

RankLimits == 1..NumIds
RankMinScores == {50, 90}

\* get_unfollow_candidates(limit, min_score)
GetUnfollowCandidates(limit, min_score) ==
    /\ pc = "idle" /\ ret = NULL
    /\ \E candidates \in get_unfollow_candidates(following_status, limit, min_score) :
          ret' = Some([op |-> "get_unfollow_candidates", limit |-> limit,
                       min_score |-> min_score, value |-> candidates])
    /\ UNCHANGED <<store, pc, todo, run, batches, response>>
    /\ UNCHANGED client

RankNext ==
    \/ \E limit \in RankLimits, min_score \in RankMinScores :
          GetUnfollowCandidates(limit, min_score)
    \/ TakeResult

SpecRank == RankInit /\ [][RankNext]_vars

\* get_unfollow_candidates has returned.
Ranked == ret # NULL /\ Val(ret).op = "get_unfollow_candidates"

\* C17: get_unfollow_candidates(limit, min_score) returns min(limit, number
\* of qualifying rows) rows, each a different row of following_status with
\* unfollowed_date NULL, is_whitelisted false and unfollow_score >=
\* min_score, in the order of unfollow_score descending and, at equal score,
\* days_inactive descending; no qualifying row left out ranks before a
\* returned one; with no qualifying row the result is the empty list.
C17_RankReference ==
    Ranked =>
        LET c == Val(ret).value
            fs == following_status
            Q == {i \in Ids : /\ fs[i].exists
                              /\ fs[i].unfollowed_date = NULL
                              /\ ~fs[i].is_whitelisted
                              /\ fs[i].unfollow_score # NULL
                              /\ fs[i].unfollow_score[1] >= Val(ret).min_score}
            days(r) == IF r.days_inactive = NULL THEN 0 - 1 ELSE r.days_inactive[1]
            NotAfter(r, q) == \/ r.unfollow_score[1] > q.unfollow_score[1]
                              \/ /\ r.unfollow_score[1] = q.unfollow_score[1]
                                 /\ days(r) >= days(q)
        IN /\ "value" \in DOMAIN Val(ret)
           /\ Len(c) = IF Cardinality(Q) > Val(ret).limit
                       THEN Val(ret).limit ELSE Cardinality(Q)
           /\ \A k \in 1..Len(c) : c[k].user_id \in Q /\ c[k] = fs[c[k].user_id]
           /\ \A k, l \in 1..Len(c) :
                 k < l => c[k].user_id # c[l].user_id /\ NotAfter(c[k], c[l])
           /\ \A i \in Q \ {c[k].user_id : k \in 1..Len(c)} :
                 \A k \in 1..Len(c) : NotAfter(c[k], fs[i])
           /\ Q = {} => c = <<>>

\* Two rows qualify with the same score, the limit is 1, and the more
\* inactive of the two is the one returned.
C17_Witness ==
    /\ Ranked /\ Val(ret).limit = 1
    /\ following_status[1].exists /\ following_status[2].exists
    /\ following_status[1].unfollow_score = Some(90)
    /\ following_status[2].unfollow_score = Some(90)
    /\ following_status[1].days_inactive = Some(100)
    /\ following_status[2].days_inactive = Some(800)
    /\ Val(ret).value = <<following_status[2]>>
\* C18: an add for a user_id leaves the whitelist with the entry for it and
\* nothing else new, and its Account, if any, with is_whitelisted set and
\* unfollow_score -1000; an add that follows an add for the same user_id
\* changes no table, and the add applied once more to the store it left
\* gives that store.
C18_AddIdempotent ==
    [][(Returns("add_to_whitelist") /\ Val(ret').value) =>
        LET x == Val(ret').user_id
            Flagged(fs) == fs[x].exists =>
                              /\ fs[x].is_whitelisted
                              /\ fs[x].unfollow_score = Some(0 - 1000)
        IN /\ whitelist' = whitelist \cup {x}
           /\ Flagged(following_status')
           /\ \A i \in Ids \ {x} : following_status'[i] = following_status[i]
           /\ (Val(ret').replaced /\ Flagged(following_status)) => store' = store
           /\ add_to_whitelist(following_status', whitelist', x) =
                 [wl |-> whitelist', fs |-> following_status']]_vars

\* An add has replaced the entry that an earlier add for the user_id left;
\* the Account is flagged.
C18_Witness ==
    /\ ret # NULL /\ Val(ret).op = "add_to_whitelist"
    /\ Val(ret).value /\ Val(ret).replaced
    /\ Val(ret).user_id \in whitelist
    /\ following_status[Val(ret).user_id].exists
    /\ following_status[Val(ret).user_id].is_whitelisted
    /\ following_status[Val(ret).user_id].unfollow_score = Some(WhitelistScore)
    /\ following_status[Val(ret).user_id].days_inactive # NULL

\* C19 (as claimed): adds of which one fails between its two writes leave
\* no committed store with a new WhitelistEntry whose Account is not
\* flagged (is_whitelisted, unfollow_score -1000), nor an Account changed
\* without its WhitelistEntry, later commits on the connection included.
C19_AddAllOrNothing ==
    [][Returns("bulk_add_from_list") =>
        \A x \in Ids :
            /\ (x \in whitelist' \ whitelist /\ following_status[x].exists) =>
                  /\ following_status'[x].is_whitelisted
                  /\ following_status'[x].unfollow_score = Some(0 - 1000)
            /\ following_status'[x] # following_status[x] => x \in whitelist']_vars

\* C20 (as claimed): a remove for a user_id in the state an add for it left
\* (the entry written, the Account, if any, flagged with unfollow_score
\* -1000) leaves no WhitelistEntry for it, is_whitelisted false and no
\* unfollow_score -1000 in the Account.
C20_RemoveReversesAdd ==
    [][Returns("remove_from_whitelist") =>
        LET x == Val(ret').user_id
        IN (/\ x \in whitelist
            /\ following_status[x].exists =>
                  /\ following_status[x].is_whitelisted
                  /\ following_status[x].unfollow_score = Some(0 - 1000))
           => /\ x \notin whitelist'
              /\ following_status[x].exists =>
                    /\ ~following_status'[x].is_whitelisted
                    /\ following_status'[x].unfollow_score # Some(0 - 1000)]_vars

\* C21 (as claimed): a remove for a user_id returns True and leaves the
\* store without the WhitelistEntry exactly when the entry existed, and
\* returns False with no table changed exactly when none existed, whether
\* or not following_status holds a row for the user_id.
C21_RemoveReportsMembership ==
    [][Returns("remove_from_whitelist") =>
        LET x == Val(ret').user_id
        IN IF x \in whitelist
           THEN Val(ret').value /\ x \notin whitelist'
           ELSE ~Val(ret').value /\ store' = store]_vars

\* C22 (as claimed): calculate_unfollow_scores completes for every store,
\* stores _calculate_unfollow_score(row) as unfollow_score of every row with
\* unfollowed_date NULL, changes nothing else, returns the number of these
\* rows, and a second run on the store it left changes no unfollow_score.
C22_RecomputeTotalIdempotent ==
    [][Returns("calculate_unfollow_scores") =>
        /\ "value" \in DOMAIN Val(ret')
        /\ Val(ret').value = Cardinality(Followed(following_status))
        /\ \A i \in Ids :
              following_status'[i] =
                 IF i \in Followed(following_status)
                 THEN [following_status[i] EXCEPT !.unfollow_score =
                          Some(_calculate_unfollow_score(following_status[i]))]
                 ELSE following_status[i]
        /\ ~ScoresRaise(following_status')
        /\ calculate_unfollow_scores(following_status') = following_status'
        /\ <<whitelist', unfollow_log', activity_checks'>> =
              <<whitelist, unfollow_log, activity_checks>>]_vars

\* ============================================================== the day
\* A store late in a day: the live runs of the day so far (two full runs of
\* max_unfollows_per_run, over accounts that are not among Ids) have logged
\* max_unfollows_per_day unfollows; the accounts of Ids are not yet fetched.
EarlierToday ==
    [k \in 1..max_unfollows_per_day |->
        [user_id |-> 0,
         unfollowed_date |-> Now,
         days_inactive |-> Some(800),
         follower_count |-> 30,
         last_tweet_date |-> Some(800),
         unfollow_score |-> Some(90),
         reason |-> [days_inactive |-> Some(800), score |-> Some(90)],
         batch_id |-> 0]]

DayInit ==
    /\ following_status = [i \in Ids |-> NoRow]
    /\ whitelist = {}
    /\ unfollow_log = EarlierToday
    /\ activity_checks = <<>>
    /\ pc = "idle"
    /\ todo = <<>>
    /\ run = NoRun
    /\ batches = 0
    /\ response = NoResponse
    /\ ret = NULL
    /\ _rate_limits = NoLimits
    /\ clock = 0

SpecDay == DayInit /\ [][Next]_vars

\* C23 (as claimed): the unfollows logged within one day (every date of the
\* model is the same day) are never more than max_unfollows_per_day, and a
\* run never holds more than max_unfollows_per_run candidates.
C23_DailyCap ==
    /\ Len(unfollow_log) <= max_unfollows_per_day
    /\ pc = "executing" => Len(run.accounts) <= max_unfollows_per_run

\* C24 (as claimed): no operation lowers the check_count of an Account, and
\* a pass of the probe that updates the Account adds exactly one to it.
C24_CheckCountMonotonic ==
    [][/\ \A i \in Ids :
             following_status[i].exists =>
                /\ following_status'[i].exists
                /\ following_status'[i].check_count >= following_status[i].check_count
       /\ (ProbeStep /\ response'.status \in {"200", "404"}
                     /\ following_status[Head(todo)].exists) =>
             following_status'[Head(todo)].check_count =
                following_status[Head(todo)].check_count + 1]_vars

\* ====================================================== the run to its end
\* The loop of execute_unfollows is sequential code: a run that is in the
\* loop takes its next pass.
ExecuteUnfollowsPass ==
    \E status \in UnfollowStatuses, store_error \in BOOLEAN :
        ExecuteUnfollowsStep(status, store_error)

SpecRun == Init /\ [][Next]_vars /\ WF_vars(ExecuteUnfollowsPass)

\* C25: every pass of a live run sends one request, for the candidate at
\* the position the run has reached in the list it was given; after a 429
\* the run ends (ABORTED); after another outcome it goes on to the next
\* position with the list unchanged (no retry), or ends when the candidate
\* was the last (COMPLETED); a run that ends returns its two counts; and
\* every run that is in its loop ends.
C25_ExecutorStateMachine ==
    /\ [][LiveStep =>
            LET n == Len(run.accounts)
                k == n - Len(todo) + 1
            IN /\ k \in 1..n /\ todo = SubSeq(run.accounts, k, n)
               /\ response' = [request |-> "unfollow",
                               user_id |-> run.accounts[k].user_id,
                               status |-> response'.status]
               /\ response'.status \in UnfollowStatuses
               /\ IF response'.status = "429" \/ k = n
                  THEN /\ pc' = "idle"
                       /\ Returns("execute_unfollows")
                       /\ Val(ret').value \in Nat \X Nat
                  ELSE /\ pc' = "executing"
                       /\ run'.accounts = run.accounts
                       /\ todo' = SubSeq(run.accounts, k + 1, n)
                       /\ ret' = NULL]_vars
    /\ (pc = "executing") ~>
          (pc = "idle" /\ ret # NULL /\ Val(ret).op = "execute_unfollows")

\* A live run over two candidates has ended after a request for each, none
\* answered 429.
C25_Witness ==
    /\ pc = "idle"
    /\ ret # NULL /\ Val(ret).op = "execute_unfollows"
    /\ response.request = "unfollow" /\ response.status = "500"
    /\ Val(ret).value = <<1, 1>>

\* C26 (as claimed): when a run returns (success_count, error_count) over N
\* candidates, the sum of the two is the number of candidates with an
\* outcome other than 429, which is at most N and is N when no 429 was
\* answered; and in a live run success_count is the number of candidates
\* the run has made terminal.
C26_CountAccounting ==
    [][(pc = "executing" /\ pc' = "idle") =>
        LET n == Len(run.accounts)
            k == n - Len(todo) + 1
            counts == Val(ret').value
            aborted == ~run.dry_run /\ response'.status = "429"
            made_terminal == {j \in 1..n :
                run.accounts[j].user_id \in Terminal(following_status')}
        IN /\ counts[1] + counts[2] = IF aborted THEN k - 1 ELSE k
           /\ counts[1] + counts[2] <= n
           /\ ~aborted => counts[1] + counts[2] = n
           /\ ~run.dry_run => counts[1] = Cardinality(made_terminal)]_vars

\* C27 (as claimed): when the candidate a live pass has reached was ranked
\* as not whitelisted and a whitelist add for it has been committed since
\* (it has a whitelist row and is_whitelisted set), the pass sends no
\* unfollow request for it, writes no UnfollowLogEntry and leaves its
\* unfollowed_date NULL.
C27_WhitelistDuringRun ==
    [][(/\ LiveStep
        /\ ~Head(todo).is_whitelisted
        /\ Head(todo).user_id \in whitelist
        /\ following_status[Head(todo).user_id].is_whitelisted) =>
        /\ ~(response'.request = "unfollow" /\ response'.user_id = Head(todo).user_id)
        /\ unfollow_log' = unfollow_log
        /\ following_status'[Head(todo).user_id].unfollowed_date = NULL]_vars

\* ============================================== the fetch, page by page
\* The pages of GET /2/users/me/following: each holds a set of users, and
\* each but the last carries a next_token.
FetchPages ==
    UNION {[1..n -> SUBSET Ids] : n \in 1..MaxPages}

FetchStatuses == {"200", "429", "500", "exception"}

\* fetch_following_list, up to its loop.  pagination_token is the number of
\* pages read (0 for None): the request sent with it is for the next page.
FetchFollowingListStart(pages) ==
    /\ pc = "idle" /\ ret = NULL
    /\ pc' = "fetching"
    /\ run' = [loop |-> "fetch_following_list", pages |-> pages,
               following_count |-> 0, pagination_token |-> 0]
    /\ response' = NoResponse
    /\ UNCHANGED <<store, todo, batches, ret>>
    /\ UNCHANGED client

\* One pass of the loop: the request and what follows from its answer.
FetchFollowingListPass(status) ==
    /\ pc = "fetching"
    /\ LET page == run.pages[run.pagination_token + 1]
           count == run.following_count + Cardinality(page)
       IN /\ response' = [request |-> "following",
                          pagination_token |-> run.pagination_token,
                          status |-> status]
          /\ CASE status = "200" ->
                    /\ following_status' =
                          [i \in Ids |-> IF i \in page
                               THEN add_following_account(following_status, GatewayUser(i))[i]
                               ELSE following_status[i]]
                    /\ IF run.pagination_token + 1 < Len(run.pages)
                       THEN /\ pc' = "fetching"
                            /\ run' = [run EXCEPT !.following_count = count,
                                                  !.pagination_token = @ + 1]
                            /\ ret' = ret
                       ELSE /\ pc' = "idle" /\ run' = NoRun
                            /\ ret' = Some([op |-> "fetch_following_list",
                                            value |-> count])
               [] status = "429" ->
                    /\ pc' = "fetch_waiting"
                    /\ UNCHANGED <<following_status, run, ret>>
               [] OTHER ->
                    /\ pc' = "idle" /\ run' = NoRun
                    /\ ret' = Some([op |-> "fetch_following_list",
                                    value |-> run.following_count])
                    /\ UNCHANGED following_status
    /\ UNCHANGED <<whitelist, unfollow_log, activity_checks, todo, batches>>
    /\ UNCHANGED client

\* time.sleep(60) is over: continue, back to the top of the loop.
FetchFollowingListWake ==
    /\ pc = "fetch_waiting"
    /\ pc' = "fetching"
    /\ UNCHANGED <<store, todo, run, batches, response, ret>>
    /\ UNCHANGED client

FetchRequest == \E status \in FetchStatuses : FetchFollowingListPass(status)

FetchNext ==
    \/ \E pages \in FetchPages : FetchFollowingListStart(pages)
    \/ FetchRequest
    \/ FetchFollowingListWake
    \/ TakeResult

\* The loop is sequential code: it sends its next request, and its sleep ends.
SpecFetch ==
    Init /\ [][FetchNext]_vars /\ WF_vars(FetchRequest) /\ WF_vars(FetchFollowingListWake)

\* The accounts of the first k pages, counted page by page.
RECURSIVE PagesCount(_, _)
PagesCount(pages, k) ==
    IF k = 0 THEN 0 ELSE PagesCount(pages, k - 1) + Cardinality(pages[k])

\* C28 (as claimed): a pass answered 429 changes neither the store nor the
\* pagination token nor the count, and after the wait the same page is
\* requested; the count is that of the pages read, each once; another
\* status than 200 and 429, or an exception, ends the fetch with the count
\* reached; and every fetch ends, whatever the gateway answers.
C28_FetchUnderRateLimit ==
    /\ [][/\ pc = "fetching" =>
               /\ response'.request = "following"
               /\ response'.pagination_token = run.pagination_token
               /\ run.following_count = PagesCount(run.pages, run.pagination_token)
               /\ response'.status = "429" =>
                     /\ pc' = "fetch_waiting" /\ run' = run /\ store' = store
               /\ response'.status \in {"500", "exception"} =>
                     /\ pc' = "idle" /\ store' = store
                     /\ Returns("fetch_following_list")
                     /\ Val(ret').value = run.following_count
               /\ response'.status = "200" =>
                     IF run.pagination_token + 1 < Len(run.pages)
                     THEN /\ pc' = "fetching"
                          /\ run'.pagination_token = run.pagination_token + 1
                     ELSE /\ pc' = "idle"
                          /\ Val(ret').value = PagesCount(run.pages, Len(run.pages))
          /\ pc = "fetch_waiting" =>
               /\ pc' = "fetching" /\ run' = run /\ store' = store]_vars
    /\ (pc = "fetching") ~> (pc = "idle")

\* ====================================================== the X API client
max_retries == 3
base_wait == 60

\* x-rate-limit-reset of a response: the end of a window of the gateway.
ResetTimes == {120, 300}

\* The x-rate-limit-* headers of a response: none of them, or remaining and
\* limit with or without reset.
ClientHeaders ==
    {[remaining |-> NULL, limit |-> NULL, reset |-> NULL]} \cup
    {[remaining |-> Some(r), limit |-> Some(15), reset |-> t] :
        r \in {0, 1}, t \in {NULL} \cup {Some(x) : x \in ResetTimes}}

\* What session.request gives: a response with a status and headers, or a
\* requests.Timeout / requests.ConnectionError ("timeout", no response).
ClientAnswers ==
    [status : {"200", "429", "500", "timeout"}, headers : ClientHeaders]

\* _check_rate_limit(endpoint) at time now: ok is what it returns, limits
\* what it leaves in _rate_limits (an entry whose reset time has passed is
\* deleted).
_check_rate_limit(limits, now, endpoint) ==
    IF limits[endpoint] = NULL
    THEN [ok |-> TRUE, limits |-> limits]
    ELSE LET limit_info == Val(limits[endpoint])
         IN IF limit_info.remaining > 0
            THEN [ok |-> TRUE, limits |-> limits]
            ELSE IF limit_info.reset_time # NULL /\ now > Val(limit_info.reset_time)
                 THEN [ok |-> TRUE, limits |-> [limits EXCEPT ![endpoint] = NULL]]
                 ELSE [ok |-> FALSE, limits |-> limits]

\* _update_rate_limit(endpoint, headers).
_update_rate_limit(limits, endpoint, headers) ==
    IF headers.remaining # NULL
    THEN [limits EXCEPT ![endpoint] =
             Some([remaining |-> Val(headers.remaining),
                   limit |-> headers.limit,
                   reset_time |-> headers.reset])]
    ELSE limits

\* The body of _make_request: raised is the exception it ends with ("none"
\* when it returns response.json()), requested whether session.request was
\* called.
_make_request(limits, now, endpoint, answer) ==
    LET check == _check_rate_limit(limits, now, endpoint)
    IN IF ~check.ok
       THEN [limits |-> check.limits, raised |-> "RateLimitError", requested |-> FALSE]
       ELSE IF answer.status = "timeout"
       THEN [limits |-> check.limits, raised |-> "APIError", requested |-> TRUE]
       ELSE [limits |-> _update_rate_limit(check.limits, endpoint, answer.headers),
             raised |-> CASE answer.status = "200" -> "none"
                          [] answer.status = "429" -> "RateLimitError"
                          [] OTHER -> "APIError",
             requested |-> TRUE]

\* A wrapper that backs off after every exception.
rate_limit_handler_retries_errors(attempt, raised) ==
    IF raised = "none"
    THEN [next |-> "return", wait_time |-> 0]
    ELSE IF attempt = max_retries
         THEN [next |-> "raise", wait_time |-> 0]
         ELSE [next |-> "sleep", wait_time |-> base_wait * (2 ^ attempt)]

\* The wrapper of rate_limit_handler after the call of attempt has ended.
rate_limit_handler(attempt, raised) ==
    IF raised = "none"
    THEN [next |-> "return", wait_time |-> 0]
    ELSE IF raised = "RateLimitError" /\ attempt # max_retries
         THEN [next |-> "sleep", wait_time |-> base_wait * (2 ^ attempt)]
         ELSE [next |-> "raise", wait_time |-> 0]

\* A caller calls _make_request(method, endpoint): the wrapper enters its
\* loop.  calls and waited count the calls of the body and the seconds slept.
MakeRequestStart(endpoint) ==
    /\ pc = "idle" /\ ret = NULL
    /\ clock + base_wait * ((2 ^ max_retries) - 1) <= MaxClock
    /\ pc' = "requesting"
    /\ run' = [loop |-> "_make_request", endpoint |-> endpoint, attempt |-> 0,
               calls |-> 0, wait_time |-> 0, waited |-> 0]
    /\ response' = NoResponse
    /\ UNCHANGED <<store, todo, batches, ret, client>>

\* One pass of the wrapper's loop: the call of the body and what the
\* wrapper does with its end.
MakeRequestAttempt(answer) ==
    /\ pc = "requesting"
    /\ LET r == _make_request(_rate_limits, clock, run.endpoint, answer)
           h == rate_limit_handler(run.attempt, r.raised)
       IN /\ _rate_limits' = r.limits
          /\ response' = IF r.requested
                         THEN [request |-> "api", endpoint |-> run.endpoint,
                               status |-> answer.status]
                         ELSE NoResponse
          /\ IF h.next = "sleep"
             THEN /\ pc' = "backoff"
                  /\ run' = [run EXCEPT !.calls = @ + 1, !.wait_time = h.wait_time]
                  /\ ret' = ret
             ELSE /\ pc' = "idle" /\ run' = NoRun
                  /\ ret' = Some([op |-> "_make_request", endpoint |-> run.endpoint,
                                  raised |-> r.raised, calls |-> run.calls + 1,
                                  waited |-> run.waited])
    /\ UNCHANGED <<store, todo, batches, clock>>

\* time.sleep(wait_time) is over: the next attempt.
MakeRequestWake ==
    /\ pc = "backoff"
    /\ pc' = "requesting"
    /\ clock' = clock + run.wait_time
    /\ run' = [run EXCEPT !.attempt = @ + 1, !.wait_time = 0,
                          !.waited = @ + run.wait_time]
    /\ UNCHANGED <<store, todo, batches, response, ret, _rate_limits>>

\* Time passes between two requests of the caller.
Tick ==
    /\ pc = "idle"
    /\ clock + base_wait <= MaxClock
    /\ clock' = clock + base_wait
    /\ UNCHANGED <<store, pc, todo, run, batches, response, ret, _rate_limits>>

MakeRequestCall == \E answer \in ClientAnswers : MakeRequestAttempt(answer)

ClientNext ==
    \/ \E endpoint \in Endpoints : MakeRequestStart(endpoint)
    \/ MakeRequestCall
    \/ MakeRequestWake
    \/ Tick
    \/ TakeResult

\* The wrapper is sequential code (its call is made, its sleep ends), and
\* time passes.
SpecClient ==
    /\ Init /\ [][ClientNext]_vars
    /\ WF_vars(MakeRequestCall) /\ WF_vars(MakeRequestWake) /\ SF_vars(Tick)

\* C29: the body of _make_request is called at most 4 times for a request;
\* when the call of attempt 0, 1 or 2 ends with a RateLimitError (a local
\* refusal or a 429) the wrapper sleeps 60 * 2^attempt seconds and calls
\* again; the RateLimitError of the 4th call is raised to the caller;
\* another error is raised at once; a 200 returns.
C29_BoundedRetry ==
    [][/\ pc = "requesting" =>
            LET refused == ~_check_rate_limit(_rate_limits, clock, run.endpoint).ok
                rate_limited == refused \/ response'.status = "429"
            IN /\ run.calls = run.attempt /\ run.attempt \in 0..3
               /\ (rate_limited /\ run.attempt < 3) =>
                     /\ pc' = "backoff" /\ ret' = NULL
                     /\ run'.wait_time = 60 * (2 ^ run.attempt)
               /\ (rate_limited /\ run.attempt = 3) =>
                     /\ pc' = "idle" /\ Returns("_make_request")
                     /\ Val(ret').raised = "RateLimitError"
                     /\ Val(ret').calls = 4
                     /\ Val(ret').waited <= 60 + 120 + 240
               /\ ~rate_limited =>
                     /\ pc' = "idle" /\ Returns("_make_request")
                     /\ Val(ret').calls = run.calls + 1
                     /\ Val(ret').raised =
                           IF response'.status = "200" THEN "none" ELSE "APIError"
       /\ pc = "backoff" =>
            /\ pc' = "requesting"
            /\ clock' = clock + run.wait_time
            /\ run'.attempt = run.attempt + 1
            /\ run'.endpoint = run.endpoint]_vars

\* The 4th call of a request was answered 429 after sleeps of 60, 120 and
\* 240 seconds, and the RateLimitError has reached the caller.
C29_Witness ==
    /\ ret # NULL /\ Val(ret).op = "_make_request"
    /\ Val(ret).raised = "RateLimitError"
    /\ Val(ret).calls = 4 /\ Val(ret).waited = 420
    /\ response.status = "429"

\* The endpoint is recorded as exhausted.
Exhausted(endpoint) ==
    /\ _rate_limits[endpoint] # NULL
    /\ Val(_rate_limits[endpoint]).remaining = 0

\* C30 (as claimed): a call for an endpoint recorded as exhausted, made when
\* the recorded reset time has not passed, sends no request and ends with a
\* RateLimitError; and whatever was recorded, the endpoint is requestable
\* again (_check_rate_limit returns True for it) at some later time.
C30_RateLimitRecovers ==
    /\ [][(/\ pc = "requesting"
           /\ Exhausted(run.endpoint)
           /\ LET reset_time == Val(_rate_limits[run.endpoint]).reset_time
              IN reset_time = NULL \/ clock <= Val(reset_time)) =>
            /\ response' = NoResponse
            /\ _rate_limits' = _rate_limits
            /\ \/ pc' = "backoff"
               \/ Val(ret').raised = "RateLimitError"]_vars
    /\ \A endpoint \in Endpoints :
          Exhausted(endpoint) ~> _check_rate_limit(_rate_limits, clock, endpoint).ok

====
